---- MODULE Spec2Model ----
(***************************************************************************)
(* EnergyGrid data aggregator: the queue-based RateLimiter                 *)
(* (src/Assign/rateLimiter.js), the retrying client fetchDeviceData        *)
(* (src/unnamed/part_000, required as "./client") and the orchestrator     *)
(* aggregateAllDevices (src/Assign/aggregator.js).                         *)
(*                                                                         *)
(* JavaScript runs every callback to completion, so one action is one      *)
(* callback (or one synchronous run up to the next await).  Time is kept   *)
(* relative to the present: an instant t read from Date.now() is stored as *)
(* the elapsed time now - t, a pending setTimeout as the time left.  Both  *)
(* are in milliseconds, advance by Quantum, and elapsed times saturate at  *)
(* Horizon (they are only ever compared with delays below Horizon).        *)
(***************************************************************************)
EXTENDS Integers, Sequences, FiniteSets, TLC

\* ---------------------------------------------------------------- bounds
Quantum == 500        \* granularity of modelled time, in ms
Horizon == 2000       \* elapsed times saturate here, in ms
MaxItems == 4         \* work items submitted to the gate in SpecGate
DeviceCount == 3      \* serial numbers of a run (500 in aggregator.js:91)
BatchSize == 2        \* batch size of a run (10 in aggregator.js:95)
MaxArrayLen == 9      \* longest array given to createBatches on its own
MaxChunk == 6         \* largest batch size given to createBatches on its own

\* ------------------------------------------------------- program constants
requestsPerSecond == 1
MaxBatch == 10
Retries == 3
Delay429 == 1500
Delay5xx == 1000
DelayNet == 1000

Min(a, b) == IF a < b THEN a ELSE b
Max(a, b) == IF a > b THEN a ELSE b

\* rateLimiter.js:8
minInterval == 1000 \div requestsPerSecond

\* elapsed time after one more Quantum
Later(e) == Min(e + Quantum, Horizon)
\* time left on a timer after one more Quantum
Left(t) == Max(t - Quantum, 0)

\* ------------------------------------------------------------------ state
VARIABLES
  queue,                 \* RateLimiter.queue: the pending {fn, resolve, reject}
  processing,            \* RateLimiter.processing
  timeSinceLastRequest,  \* Date.now() - RateLimiter.lastRequestTime
  loops,                 \* the processQueue invocations, one per execute call
  fnState,               \* per work item: the promise returned by its fn()
  fnOutcome,             \*   and what that promise settled with
  promise,               \* per work item: the promise execute() returned
  submitted,             \* number of execute calls made so far
  started,               \* ids of the work items in the order their fn was called
  sinceAdmit,            \* elapsed time since the last fn was called
  lastGap,               \* that elapsed time, read when the last fn was called
  call,                  \* per work item: its fetchDeviceData call (and retries)
  sinceSend,             \* elapsed time since the last HTTP request was sent
  lastSendGap,           \* that elapsed time, read when the last request was sent
  sends,                 \* number of HTTP requests sent (counted up to 2)
  runPc,                 \* aggregateAllDevices: where the async function is
  i,                     \* aggregateAllDevices: the loop index
  allResults,            \* aggregateAllDevices: allResults
  errors,                \* aggregateAllDevices: errors
  result,                \* aggregateAllDevices: what the returned promise settled with
  input,                 \* the arguments of a function called on its own
  output,                \*   and what it returned
  cancelled              \* an external cancellation signal has been raised

gateVars == <<queue, processing, timeSinceLastRequest, loops, fnState, fnOutcome,
              promise, submitted, started, sinceAdmit, lastGap>>
fetchVars == <<call, sinceSend, lastSendGap, sends>>
runVars == <<runPc, i, allResults, errors, result>>
envVars == <<input, output, cancelled>>
vars == <<gateVars, fetchVars, runVars, envVars>>

\* ------------------------------------------------- aggregator.js: batching
\* String(i): the decimal digits of i >= 0, most significant first
RECURSIVE Digits(_)
Digits(n) == IF n < 10 THEN <<n>> ELSE Append(Digits(n \div 10), n % 10)

\* s.padStart(width, "0"): zeros in front up to width, never a truncation
RECURSIVE padStart(_, _)
padStart(s, width) == IF Len(s) >= width THEN s ELSE padStart(<<0>> \o s, width)

\* aggregator.js:9-15: "SN-" followed by the index padded to three digits
generateSerialNumbers(count) ==
  [k \in 1..count |-> <<"S", "N", "-">> \o padStart(Digits(k - 1), 3)]

\* array.slice(from, to) with 0-based from (inclusive) and to (exclusive)
slice(array, from, to) ==
  [k \in 1..(Min(to, Len(array)) - Min(from, Len(array))) |-> array[from + k]]

\* aggregator.js:23-29: the for loop from index from on
RECURSIVE BatchesFrom(_, _, _)
\* the loop stopping before a last batch that is not full
BatchesFromFullOnly(array, batchSize, from) ==
  IF from + batchSize <= Len(array)
    THEN <<slice(array, from, from + batchSize)>>
           \o BatchesFrom(array, batchSize, from + batchSize)
    ELSE <<>>
BatchesFrom(array, batchSize, from) ==
  IF from < Len(array)
    THEN <<slice(array, from, from + batchSize)>>
           \o BatchesFrom(array, batchSize, from + batchSize)
    ELSE <<>>

createBatches(array, batchSize) == BatchesFrom(array, batchSize, 0)

\* aggregator.js:91-95: the batches of a run
Batches == createBatches(generateSerialNumbers(DeviceCount), BatchSize)

\* work items are numbered in the order of the execute calls
MaxId == Max(MaxItems, Len(Batches))
Ids == 1..MaxId

\* ------------------------------------------------ rateLimiter.js: the gate
NoValue == [tag |-> "none"]
NoLoop == [pc |-> "none", timer |-> 0, cur |-> 0, fn |-> "-"]
Pending == [state |-> "pending", val |-> NoValue, n |-> 0]

\* the RateLimiter's fields and what its callbacks touch, as one record
Gate ==
  [queue |-> queue, processing |-> processing, since |-> timeSinceLastRequest,
   loops |-> loops, promise |-> promise, started |-> started,
   sinceAdmit |-> sinceAdmit, lastGap |-> lastGap]

\* resolve(val) / reject(val) of the promise execute() returned for item id:
\* a promise settles once, later calls are counted and otherwise ignored
Settle(p, ok, val) ==
  IF p.state = "pending"
    THEN [state |-> IF ok THEN "fulfilled" ELSE "rejected", val |-> val, n |-> 1]
    ELSE [p EXCEPT !.n = Min(@ + 1, 2)]

\* setTimeout(cb, ms): a delay below 1 ms is raised to 1 ms, which is below
\* the model's granularity; the callback never runs before the delay is over
setTimeout(ms) == Max(ms, 0)

\* rateLimiter.js:21
EnqueueFront(q, item) == <<item>> \o q
Enqueue(q, item) == Append(q, item)

\* rateLimiter.js:30: the early return of processQueue
NeverBusy(g) == g.queue = <<>>
Busy(g) == g.processing \/ g.queue = <<>>

\* rateLimiter.js:41-42
WaitTimeSwapped(since) == since - minInterval
WaitTime(since) == minInterval - since

\* rateLimiter.js:36-55: one synchronous run of the while loop of invocation
\* l, from the loop test to the next await (or to the loop's end)
RECURSIVE Loop(_, _)
\* rateLimiter.js:46-54: shift the head, stamp lastRequestTime, call fn
Admit(g, l) ==
  LET item == Head(g.queue)
      g1 == [g EXCEPT !.queue = Tail(@), !.since = 0,
                      !.started = Append(@, item.id),
                      !.lastGap = g.sinceAdmit, !.sinceAdmit = 0]
  IN IF g.queue = <<>>
       \* shift() gave undefined: destructuring it throws out of processQueue
       THEN [g EXCEPT !.loops[l] = [NoLoop EXCEPT !.pc = "crashed"]]
     ELSE IF item.fn = "throws"
       \* fn() throws before returning a promise: caught, reject(error), loop on
       THEN Loop([g1 EXCEPT !.promise[item.id] =
                     Settle(@, FALSE, [tag |-> "thrown", from |-> item.id])], l)
       \* fn() returned a promise: the loop awaits it
       ELSE [g1 EXCEPT !.loops[l] =
               [pc |-> "await", timer |-> 0, cur |-> item.id, fn |-> item.fn]]

\* rateLimiter.js:36-57 without line 57: the flag stays set after the loop
LoopKeepsFlag(g, l) ==
  IF g.queue = <<>>
    THEN [g EXCEPT !.loops[l] = [NoLoop EXCEPT !.pc = "done"]]
    ELSE IF g.since < minInterval
      THEN [g EXCEPT !.loops[l] =
              [NoLoop EXCEPT !.pc = "sleep", !.timer = setTimeout(WaitTime(g.since))]]
      ELSE Admit(g, l)

Loop(g, l) ==
  IF g.queue = <<>>
    THEN [g EXCEPT !.processing = FALSE, !.loops[l] = [NoLoop EXCEPT !.pc = "done"]]
    ELSE IF g.since < minInterval
      THEN [g EXCEPT !.loops[l] =
              [NoLoop EXCEPT !.pc = "sleep", !.timer = setTimeout(WaitTime(g.since))]]
      ELSE Admit(g, l)

\* rateLimiter.js:29-34
processQueue(g, l) ==
  IF Busy(g) THEN g ELSE Loop([g EXCEPT !.processing = TRUE], l)

\* rateLimiter.js:19-24: execute(fn) for the work item numbered id
execute(g, id, fn) ==
  processQueue([g EXCEPT !.queue = Enqueue(@, [id |-> id, fn |-> fn])], id)

\* rateLimiter.js:43-44: the sleep timer of invocation l has fired
AfterSleep(g, l) == Admit(g, l)

\* rateLimiter.js:50-55 with lastRequestTime recorded when fn() completes
AfterFnStamped(g, l, o) ==
  Loop([g EXCEPT !.promise[g.loops[l].cur] = Settle(@, o.ok, o.val), !.since = 0], l)

\* rateLimiter.js:50-55: the promise of the awaited fn() has settled with o
AfterFn(g, l, o) ==
  Loop([g EXCEPT !.promise[g.loops[l].cur] = Settle(@, o.ok, o.val)], l)

\* the work item whose fn was called last in this run of invocation l, or 0
Launched(g, l) == IF g.loops[l].pc = "await" THEN g.loops[l].cur ELSE 0

\* the gate's variables take the values of record g
GateBecomes(g) ==
  /\ queue' = g.queue
  /\ processing' = g.processing
  /\ timeSinceLastRequest' = g.since
  /\ loops' = g.loops
  /\ promise' = g.promise
  /\ started' = g.started
  /\ sinceAdmit' = g.sinceAdmit
  /\ lastGap' = g.lastGap

\* ------------------------------------------- the client: fetchDeviceData
\* what the transport can answer to one attempt: a response with a status and
\* a body, or an "error" event on the request
Bodies200 == {"<html>", "null", "{}", "{data:[]}", "{data:[a,b]}", "{data:[null]}"}
Statuses == {401, 404, 429, 500, 503}
Outcomes ==
  [type : {"response"}, status : {200}, body : Bodies200]
    \cup [type : {"response"}, status : Statuses, body : {"text"}]
    \cup [type : {"error"}, status : {0}, body : {"ECONNRESET"}]

\* the device records of the body "{data:[a,b]}"
DeviceA == [null |-> FALSE, status |-> "Online", power |-> "2.5 kW"]
DeviceB == [null |-> FALSE, status |-> "Offline", power |-> "bad"]
NullDevice == [null |-> TRUE, status |-> "", power |-> ""]

Json(null, hasData, data) ==
  [tag |-> "json", null |-> null, hasData |-> hasData, data |-> data]

\* JSON.parse(data): the parsed value, or ok = FALSE when it throws
JSONparse(body) ==
  CASE body = "null" -> [ok |-> TRUE, value |-> Json(TRUE, FALSE, <<>>)]
    [] body = "{}" -> [ok |-> TRUE, value |-> Json(FALSE, FALSE, <<>>)]
    [] body = "{data:[]}" -> [ok |-> TRUE, value |-> Json(FALSE, TRUE, <<>>)]
    [] body = "{data:[a,b]}" ->
         [ok |-> TRUE, value |-> Json(FALSE, TRUE, <<DeviceA, DeviceB>>)]
    [] body = "{data:[null]}" ->
         [ok |-> TRUE, value |-> Json(FALSE, TRUE, <<NullDevice>>)]
    [] OTHER -> [ok |-> FALSE, value |-> NoValue]

\* new Error(message); status and body are the values the message embeds
Error(message, status, body) ==
  [tag |-> "Error", message |-> message, status |-> status, body |-> body]

Resolve(val) == [act |-> "resolve", val |-> val, delay |-> 0]
Reject(val) == [act |-> "reject", val |-> val, delay |-> 0]
Retry(delay) == [act |-> "retry", val |-> NoValue, delay |-> delay]

\* part_000:109-123: the request's "error" event
OnErrorOneLess(retries, o) ==
  IF retries > 1 THEN Retry(DelayNet) ELSE Reject(Error(o.body, 0, ""))
OnErrorOneMore(retries, o) ==
  IF retries >= 0 THEN Retry(DelayNet) ELSE Reject(Error(o.body, 0, ""))
OnError(retries, o) ==
  IF retries > 0 THEN Retry(DelayNet) ELSE Reject(Error(o.body, 0, ""))

\* part_000:60-66: status 200
On200(o) ==
  IF JSONparse(o.body).ok
    THEN Resolve(JSONparse(o.body).value)
    ELSE Reject(Error("Failed to parse response", 200, o.body))

\* part_000:67-84: status 429
On429OneMore(retries, o) ==
  IF retries >= 0
    THEN Retry(Delay429)
    ELSE Reject(Error("Rate limit exceeded after retries", o.status, ""))
On429(retries, o) ==
  IF retries > 0
    THEN Retry(Delay429)
    ELSE Reject(Error("Rate limit exceeded after retries", o.status, ""))

\* part_000:85-86: status 401
On401(o) == Reject(Error("Authentication failed", o.status, ""))

\* part_000:87-105: every other status
OnOtherAnyStatus(retries, o) ==
  IF retries > 0
    THEN Retry(Delay5xx)
    ELSE Reject(Error("Request failed", o.status, o.body))
OnOtherAbove500(retries, o) ==
  IF retries > 0 /\ o.status > 500
    THEN Retry(Delay5xx)
    ELSE Reject(Error("Request failed", o.status, o.body))
OnOther(retries, o) ==
  IF retries > 0 /\ o.status >= 500
    THEN Retry(Delay5xx)
    ELSE Reject(Error("Request failed", o.status, o.body))

\* part_000:52-123: what the handlers of one attempt do with its outcome o
\* when the invocation has `retries` retries left
OnOutcome(retries, o) ==
  IF o.type = "error" THEN OnError(retries, o)
  ELSE IF o.status = 200 THEN On200(o)
  ELSE IF o.status = 429 THEN On429(retries, o)
  ELSE IF o.status = 401 THEN On401(o)
  ELSE OnOther(retries, o)

\* the spec's classification of an outcome (spec 4.2), used to tell histories
Class(o) ==
  IF o.type = "error" THEN "neterr"
  ELSE IF o.status = 200 THEN (IF JSONparse(o.body).ok THEN "ok" ELSE "garbage")
  ELSE IF o.status = 429 THEN "429"
  ELSE IF o.status = 401 THEN "401"
  ELSE IF o.status >= 500 THEN "5xx"
  ELSE "other"

\* a fetchDeviceData call with its retries: st is where it is, retries the
\* parameter of the innermost invocation, timer the time left on its retry
\* timer; attempts, seen, last, sinceFail and retryGap record its history:
\* the requests sent, the classes of the outcomes received, the last outcome,
\* the time since it, and the shortest time from a failure to its retry
\* request holds the signature and timestamp headers of the request sent last
NoOutcomeYet == [type |-> "none", status |-> 0, body |-> ""]
NoRequest ==
  [signature |-> [md5 |-> [url |-> "", token |-> "", timestamp |-> Horizon]],
   timestamp |-> Horizon]
NoCall ==
  [st |-> "none", retries |-> 0, timer |-> 0, attempts |-> 0, seen |-> {},
   last |-> NoOutcomeYet, sinceFail |-> 0, retryGap |-> Horizon,
   request |-> NoRequest]

\* part_000:5-6,30
API_TOKEN == "interview_token_123"
urlPath == "/device/real/query"

\* part_000:12-16: the MD5 digest of url + token + timestamp, kept as what was
\* hashed (two digests are equal exactly when their inputs are); timestamp
\* is the instant whose decimal string is hashed, stored as the time elapsed
\* since it
generateSignature(url, token, timestamp) ==
  [md5 |-> [url |-> url, token |-> token, timestamp |-> timestamp]]

\* part_000:29-31,46-47: the headers built from the instant read from
\* Date.now(), which lies `elapsed` ms back
Headers(elapsed) ==
  [signature |-> generateSignature(urlPath, API_TOKEN, elapsed),
   timestamp |-> elapsed]

\* the headers of a request once Quantum more ms have passed: the instants in
\* them lie further back
Aged(request) ==
  [signature |-> [md5 |-> [request.signature.md5 EXCEPT !.timestamp = Later(@)]],
   timestamp |-> Later(request.timestamp)]

\* part_000:25-27
TooLarge(serialNumbers) == Len(serialNumbers) > MaxBatch

\* part_000:29-49,125-126: the invocation builds and sends its request
\* the retry sending again the headers of the attempt before it
AttemptResend(c, retries) ==
  [c EXCEPT !.st = "inflight", !.retries = retries, !.timer = 0,
            !.attempts = @ + 1,
            !.request = IF c.attempts = 0 THEN Headers(0) ELSE @]
Attempt(c, retries) ==
  [c EXCEPT !.st = "inflight", !.retries = retries, !.timer = 0,
            !.attempts = @ + 1, !.request = Headers(0)]

\* ------------------------------------------ aggregator.js: aggregateResults
\* numbers are kept in hundredths, which is what toFixed(2) prints
Num(centi) == [nan |-> FALSE, centi |-> centi]
NaN == [nan |-> TRUE, centi |-> 0]

\* parseFloat(device.power): the leading number of the string, or NaN
parseFloat(power) == IF power = "2.5 kW" THEN Num(250) ELSE NaN

\* a / b of two counts in hundredths, rounded as toFixed(2) rounds; 0 / 0 is NaN
Divide(a, b) == IF b = 0 THEN NaN ELSE Num((2 * a + b) \div (2 * b))

\* aggregator.js:47: the responses whose data is iterated
HasDevices(response) == ~response.null /\ response.hasData

\* aggregator.js:46-65: all device records, in order
RECURSIVE DevicesOf(_)
DevicesOf(rs) ==
  IF rs = <<>> THEN <<>>
  ELSE (IF HasDevices(Head(rs)) THEN Head(rs).data ELSE <<>>) \o DevicesOf(Tail(rs))

Count(seq, Test(_)) == Cardinality({k \in DOMAIN seq : Test(seq[k])})

RECURSIVE SumPower(_)
SumPower(ds) ==
  IF ds = <<>> THEN 0
  ELSE (IF parseFloat(Head(ds).power).nan THEN 0 ELSE parseFloat(Head(ds).power).centi)
         + SumPower(Tail(ds))

\* aggregator.js:36-82; threw: reading device.status of a null record throws
aggregateResults(rs) ==
  LET ds == DevicesOf(rs)
      IsNull(d) == d.null
      IsOnline(d) == d.status = "Online"
      total == Len(ds)
      online == Count(ds, IsOnline)
  IN IF Count(ds, IsNull) > 0
       THEN [threw |-> TRUE, error |-> Error("Cannot read properties of null", 0, "status")]
       ELSE [threw |-> FALSE,
             devices |-> ds,
             summary |->
               [totalDevices |-> total,
                onlineDevices |-> online,
                offlineDevices |-> total - online,
                totalPowerKW |-> Num(SumPower(ds)),
                averagePowerKW |-> Divide(SumPower(ds), total),
                successRate |-> Divide(online * 10000, total)]]

\* --------------------------------------- aggregator.js: aggregateAllDevices
\* aggregator.js:120-123: after allResults.push(result), result.data.length
\* is read for the log line; it throws on null and on a missing data
LogThrows(r) == r.null \/ ~r.hasData

\* aggregator.js:125-129
Failure(batchNumber, error) ==
  [batch |-> batchNumber, serialNumbers |-> Batches[batchNumber], error |-> error]

\* aggregator.js:116-133: the rest of iteration idx once execute's promise p
\* has settled: the new allResults and errors
AfterBatch(idx, p, ar, er) ==
  IF p.state = "fulfilled"
    THEN [allResults |-> Append(ar, p.val),
          errors |-> IF LogThrows(p.val)
                       THEN Append(er, Failure(idx + 1,
                              Error("Cannot read properties", 0, "length")))
                       ELSE er]
    ELSE [allResults |-> ar, errors |-> Append(er, Failure(idx + 1, p.val))]

\* aggregator.js:136-167: after the loop
Finish(ar, er) ==
  IF aggregateResults(ar).threw
    THEN [state |-> "rejected", val |-> aggregateResults(ar).error]
    ELSE [state |-> "fulfilled",
          val |-> [aggregated |-> aggregateResults(ar),
                   errors |-> er,
                   batchesProcessed |-> Len(Batches),
                   batchesSuccessful |-> Len(ar),
                   batchesFailed |-> Len(er)]]

\* ---------------------------------------------------------------- actions
NoOutcome == [ok |-> FALSE, val |-> NoValue]

\* new RateLimiter(1) (rateLimiter.js:6-12) before any call: lastRequestTime
\* is 0 and Date.now() is far above minInterval
InitProgram ==
  /\ queue = <<>>
  /\ processing = FALSE
  /\ timeSinceLastRequest = Horizon
  /\ loops = [l \in Ids |-> NoLoop]
  /\ fnState = [id \in Ids |-> "idle"]
  /\ fnOutcome = [id \in Ids |-> NoOutcome]
  /\ promise = [id \in Ids |-> Pending]
  /\ submitted = 0
  /\ started = <<>>
  /\ sinceAdmit = Horizon
  /\ lastGap = Horizon
  /\ call = [id \in Ids |-> NoCall]
  /\ sinceSend = Horizon
  /\ lastSendGap = Horizon
  /\ sends = 0
  /\ runPc = "start"
  /\ i = 0
  /\ allResults = <<>>
  /\ errors = <<>>
  /\ result = [state |-> "pending", val |-> NoValue]

\* a run of the program: no function is called on its own, no signal raised
Init ==
  /\ InitProgram
  /\ input = NoValue
  /\ output = NoValue
  /\ cancelled = FALSE

\* an HTTP request leaves (part_000:125-126)
RequestSent ==
  /\ lastSendGap' = sinceSend
  /\ sinceSend' = 0
  /\ sends' = Min(sends + 1, 2)

\* rateLimiter.js:50: fn() of work item id is called (id = 0: no fn is called);
\* fs, fo and cs are fnState, fnOutcome and call as the caller leaves them
Launch(id, fn, fs, fo, cs) ==
  IF id = 0
    THEN /\ fnState' = fs /\ fnOutcome' = fo /\ call' = cs
         /\ UNCHANGED <<sinceSend, lastSendGap, sends>>
  ELSE IF fn = "task"
    THEN /\ fnState' = [fs EXCEPT ![id] = "running"]
         /\ fnOutcome' = fo /\ call' = cs
         /\ UNCHANGED <<sinceSend, lastSendGap, sends>>
  ELSE IF TooLarge(Batches[id])
    \* aggregator.js:116-118, part_000:24-27: fetchDeviceData(batch) rejects
    THEN /\ fnState' = [fs EXCEPT ![id] = "settled"]
         /\ fnOutcome' = [fo EXCEPT ![id] =
              [ok |-> FALSE, val |-> Error("Batch size cannot exceed 10 devices", 0, "")]]
         /\ call' = cs
         /\ UNCHANGED <<sinceSend, lastSendGap, sends>>
    \* fetchDeviceData(batch) with retries = 3 sends its first request
    ELSE /\ fnState' = [fs EXCEPT ![id] = "running"]
         /\ fnOutcome' = fo
         /\ call' = [cs EXCEPT ![id] = Attempt(NoCall, Retries)]
         /\ RequestSent

\* a run of the gate's code for invocation l ends in state g
GateRan(g, l, fs, fo, cs) ==
  /\ GateBecomes(g)
  /\ Launch(Launched(g, l), g.loops[l].fn, fs, fo, cs)

\* some caller calls rateLimiter.execute(fn)
Execute(fn) ==
  /\ submitted < MaxItems
  /\ submitted' = submitted + 1
  /\ GateRan(execute(Gate, submitted + 1, fn), submitted + 1, fnState, fnOutcome, call)
  /\ UNCHANGED <<runVars, envVars>>

\* the promise a task's fn returned settles
TaskSettle(id, ok) ==
  /\ fnState[id] = "running"
  /\ \E l \in Ids : loops[l].cur = id /\ loops[l].fn = "task"
  /\ fnState' = [fnState EXCEPT ![id] = "settled"]
  /\ fnOutcome' = [fnOutcome EXCEPT ![id] =
       [ok |-> ok, val |-> [tag |-> IF ok THEN "value" ELSE "Error", from |-> id]]]
  /\ UNCHANGED <<queue, processing, timeSinceLastRequest, loops, promise, submitted,
                 started, sinceAdmit, lastGap, fetchVars, runVars, envVars>>

\* rateLimiter.js:43-50: the sleep timer of invocation l fires
SleepFire(l) ==
  /\ loops[l].pc = "sleep"
  /\ loops[l].timer = 0
  /\ GateRan(AfterSleep(Gate, l), l, fnState, fnOutcome, call)
  /\ UNCHANGED <<submitted, runVars, envVars>>

\* rateLimiter.js:50-57: invocation l resumes after await fn()
GateResume(l) ==
  /\ loops[l].pc = "await"
  /\ fnState[loops[l].cur] = "settled"
  /\ GateRan(AfterFn(Gate, l, fnOutcome[loops[l].cur]), l,
             [fnState EXCEPT ![loops[l].cur] = "consumed"],
             [fnOutcome EXCEPT ![loops[l].cur] = NoOutcome],
             [call EXCEPT ![loops[l].cur] =
                IF @.st = "none" THEN @ ELSE [NoCall EXCEPT !.st = "done"]])
  /\ UNCHANGED <<submitted, runVars, envVars>>

\* part_000:52-123: the transport answers the request in flight of call b
Respond(b, o) ==
  /\ call[b].st = "inflight"
  /\ LET d == OnOutcome(call[b].retries, o)
         c == [call[b] EXCEPT !.seen = @ \cup {Class(o)}, !.last = o]
     IN IF d.act = "retry"
          THEN /\ call' = [call EXCEPT ![b] =
                    [c EXCEPT !.st = "backoff", !.timer = setTimeout(d.delay),
                              !.sinceFail = 0]]
               /\ UNCHANGED <<fnState, fnOutcome>>
          ELSE /\ call' = [call EXCEPT ![b] = [c EXCEPT !.st = "settled"]]
               /\ fnState' = [fnState EXCEPT ![b] = "settled"]
               /\ fnOutcome' = [fnOutcome EXCEPT ![b] =
                    [ok |-> d.act = "resolve", val |-> d.val]]
  /\ UNCHANGED <<queue, processing, timeSinceLastRequest, loops, promise, submitted,
                 started, sinceAdmit, lastGap, sinceSend, lastSendGap, sends, runVars, envVars>>

\* part_000:73-77 with the retry handed to the rate limiter as a new work item
RetryFireViaGate(b) ==
  /\ call[b].st = "backoff"
  /\ call[b].timer = 0
  /\ GateBecomes(execute(Gate, b, "fetch"))
  /\ call' = [call EXCEPT ![b].st = "requeued"]
  /\ UNCHANGED <<fnState, fnOutcome, submitted, sinceSend, lastSendGap, sends,
                 runVars, envVars>>

\* part_000:73-77,93-97,115-119: the retry timer of call b fires
RetryFire(b) ==
  /\ call[b].st = "backoff"
  /\ call[b].timer = 0
  /\ call' = [call EXCEPT ![b] =
       [Attempt(@, @.retries - 1) EXCEPT !.retryGap = Min(@, call[b].sinceFail)]]
  /\ RequestSent
  /\ UNCHANGED <<gateVars, runVars, envVars>>

\* aggregator.js:107-167: the for loop from iteration idx on, with the
\* accumulators ar and er, to its next await or to the return
RunLoop(idx, ar, er) ==
  /\ i' = idx
  /\ allResults' = ar
  /\ errors' = er
  /\ UNCHANGED envVars
  /\ IF idx < Len(Batches)
       THEN /\ runPc' = "await"
            /\ result' = result
            /\ submitted' = idx + 1
            /\ GateRan(execute(Gate, idx + 1, "fetch"), idx + 1, fnState, fnOutcome, call)
       ELSE /\ runPc' = "settled"
            /\ result' = Finish(ar, er)
            /\ UNCHANGED <<gateVars, fetchVars>>

\* aggregator.js:87-118: aggregateAllDevices() is called
AggregateAllDevices ==
  /\ runPc = "start"
  /\ RunLoop(0, <<>>, <<>>)

\* aggregator.js:116-134 without the try/catch: a rejection leaves the loop
BatchSettledNoCatch ==
  /\ runPc = "await"
  /\ promise[i + 1].state # "pending"
  /\ IF promise[i + 1].state = "rejected"
       THEN /\ runPc' = "settled"
            /\ result' = [state |-> "rejected", val |-> promise[i + 1].val]
            /\ UNCHANGED <<i, allResults, errors, gateVars, fetchVars, envVars>>
       ELSE LET a == AfterBatch(i, promise[i + 1], allResults, errors)
            IN RunLoop(i + 1, a.allResults, a.errors)

\* aggregator.js:116-134 without the await: the loop goes on at once
BatchSettledNoAwait ==
  /\ runPc = "await"
  /\ LET a == AfterBatch(i, promise[i + 1], allResults, errors)
     IN RunLoop(i + 1, a.allResults, a.errors)

\* aggregator.js:116-134: the awaited execute promise has settled
BatchSettled ==
  /\ runPc = "await"
  /\ promise[i + 1].state # "pending"
  /\ LET a == AfterBatch(i, promise[i + 1], allResults, errors)
     IN RunLoop(i + 1, a.allResults, a.errors)

\* Quantum ms pass
Tick ==
  /\ timeSinceLastRequest' = Later(timeSinceLastRequest)
  /\ sinceAdmit' = Later(sinceAdmit)
  /\ sinceSend' = Later(sinceSend)
  /\ loops' = [l \in Ids |-> [loops[l] EXCEPT !.timer = Left(@)]]
  /\ call' = [b \in Ids |->
       IF call[b].st = "backoff"
         THEN [call[b] EXCEPT !.timer = Left(@), !.sinceFail = Later(@),
                              !.request = Aged(@)]
         ELSE [call[b] EXCEPT !.request = Aged(@)]]
  /\ UNCHANGED <<queue, processing, fnState, fnOutcome, promise, submitted, started,
                 lastGap, lastSendGap, sends, runVars, envVars>>

\* a run of aggregateAllDevices
Next ==
  \/ AggregateAllDevices
  \/ BatchSettled
  \/ \E l \in Ids : SleepFire(l)
  \/ \E l \in Ids : GateResume(l)
  \/ \E b \in Ids, o \in Outcomes : Respond(b, o)
  \/ \E b \in Ids : RetryFire(b)
  \/ Tick

Spec == Init /\ [][Next]_vars

\* the gate alone, with callers that submit work items at any time
FnKinds == {"task", "throws"}

NextGate ==
  \/ \E fn \in FnKinds : Execute(fn)
  \/ \E id \in Ids, ok \in BOOLEAN : TaskSettle(id, ok)
  \/ \E l \in Ids : SleepFire(l)
  \/ \E l \in Ids : GateResume(l)
  \/ Tick

SpecGate == Init /\ [][NextGate]_vars

\* createBatches called on its own (aggregator.js:23-29, exported at :188)
\* with an array of up to MaxArrayLen serial numbers and a batch size of 1 to
\* MaxChunk
Inputs ==
  [array : {generateSerialNumbers(n) : n \in 0..MaxArrayLen}, batchSize : 1..MaxChunk]

InitBatches ==
  /\ InitProgram
  /\ input \in Inputs
  /\ output = NoValue
  /\ cancelled = FALSE

CreateBatches ==
  /\ output = NoValue
  /\ output' = [tag |-> "batches",
                batches |-> createBatches(input.array, input.batchSize)]
  /\ UNCHANGED <<gateVars, fetchVars, runVars, input, cancelled>>

SpecBatches == InitBatches /\ [][CreateBatches]_vars

\* spec.md section 5: someone outside raises a cancellation signal during a
\* run; the program has no parameter, flag or handler that reads it
Cancel ==
  /\ runPc = "await"
  /\ ~cancelled
  /\ cancelled' = TRUE
  /\ UNCHANGED <<gateVars, fetchVars, runVars, input, output>>

\* a run of aggregateAllDevices during which the signal may be raised
NextCancel ==
  \/ Next
  \/ Cancel

SpecCancel == Init /\ [][NextCancel]_vars

\* what happens without a caller: time passes, a timer whose delay is over
\* fires (rateLimiter.js:64-66), the continuation of a settled await runs
\* (rateLimiter.js:50), the promise a work item's fn returned settles
EventLoop ==
  \/ \E id \in Ids, ok \in BOOLEAN : TaskSettle(id, ok)
  \/ \E l \in Ids : SleepFire(l)
  \/ \E l \in Ids : GateResume(l)
  \/ Tick

\* the gate with callers, under the scheduling the event loop gives: as long
\* as one of these can happen, one of them does
SpecGateFair == SpecGate /\ WF_vars(EventLoop)

\* ------------------------------------------------------------------ claims
Running == {id \in Ids : fnState[id] = "running"}
ActiveLoops == {l \in Ids : loops[l].pc \in {"sleep", "await"}}
Settled(id) == promise[id].state # "pending"

\* C1: whenever a work item's fn is called, at least minInterval has passed
\* since the previous work item's fn was called, whatever the callers, the
\* durations and the outcomes of the work items.
C1_AdmissionGap == Len(started) >= 2 => lastGap >= minInterval

\* C1 witness: a work item had to wait and was started exactly minInterval
\* after the one before it, which is still running.
C1_Witness ==
  /\ Len(started) >= 2
  /\ lastGap = minInterval
  /\ fnState[started[Len(started) - 1]] = "consumed"
  /\ fnState[started[Len(started)]] = "running"

\* C2: at most one work item is executing and at most one processQueue loop
\* is active at any time, and a work item is started only after the promise
\* of every work item started before it has settled and been handled.
C2_OneAtATime ==
  /\ Cardinality(Running) <= 1
  /\ Cardinality(ActiveLoops) <= 1
  /\ \A k \in 1..(Len(started) - 1) : fnState[started[k]] \in {"idle", "consumed"}

\* C2 witness: execute was called twice while another work item was running
\* (both are queued behind it), after an earlier item had already finished.
C2_Witness ==
  /\ Cardinality(Running) = 1
  /\ Len(queue) >= 2
  /\ Len(started) >= 2

\* C3: work items are started in the order of the execute calls, none
\* skipped, and the promise of each execute call is settled with the outcome
\* of its own work item: fulfilled with its value, or rejected with its error.
C3_Fifo ==
  /\ started = [k \in 1..Len(started) |-> k]
  /\ \A id \in Ids : Settled(id) =>
       /\ \E k \in 1..Len(started) : started[k] = id
       /\ promise[id].val.from = id
       /\ promise[id].n = 1
       /\ (promise[id].state = "fulfilled") = (promise[id].val.tag = "value")

\* C3 witness: three work items were queued together and all of them have
\* been started and settled, one fulfilled and one rejected.
C3_Witness ==
  /\ Len(started) >= 3
  /\ \A id \in 1..3 : Settled(id)
  /\ \E id \in 1..3 : promise[id].state = "fulfilled"
  /\ \E id \in 1..3 : promise[id].val.tag = "Error"

\* C4 (as claimed): any two consecutive HTTP requests of a run, first
\* attempts and retries alike, are sent at least 1000 ms (minInterval) apart.
C4_RequestGap == sends >= 2 => lastSendGap >= minInterval

Only(b, class) == call[b].seen = {class}
Done(b) == call[b].st = "settled"
Rejected(b) == fnState[b] = "settled" /\ ~fnOutcome[b].ok
Fulfilled(b) == fnState[b] = "settled" /\ fnOutcome[b].ok

\* C5: a fetchDeviceData call that has been answered 429 on every attempt
\* makes at most 4 attempts, starts each retry at least 1500 ms after the
\* failed attempt, never succeeds, and ends after exactly 4 attempts
\* (3 retries), rejected with the rate-limit-exceeded error.
C5_Always429 ==
  \A b \in Ids : Only(b, "429") =>
    /\ call[b].attempts <= Retries + 1
    /\ call[b].retries = Retries - (call[b].attempts - 1)
    /\ call[b].retryGap >= Delay429
    /\ call[b].st = "backoff" => call[b].timer <= Delay429
    /\ ~Fulfilled(b)
    /\ Done(b) =>
         /\ call[b].attempts = Retries + 1
         /\ Rejected(b)
         /\ fnOutcome[b].val = Error("Rate limit exceeded after retries", 429, "")

\* C5 witness: a call answered 429 four times has been rejected.
C5_Witness ==
  \E b \in Ids : Only(b, "429") /\ Done(b) /\ Rejected(b) /\ call[b].attempts = 4

Terminal == {"401", "garbage", "other"}

\* C6: once an attempt has yielded 401, an unparseable 200 or a status other
\* than 200, 429 and >= 500, the call is over: it is rejected with the error
\* of that outcome and no retry is pending or in flight, whatever retry
\* budget remained.
C6_TerminalNotRetried ==
  \A b \in Ids : call[b].seen \cap Terminal # {} =>
    /\ Done(b)
    /\ Rejected(b)
    /\ Class(call[b].last) \in Terminal
    /\ Class(call[b].last) = "401" =>
         fnOutcome[b].val = Error("Authentication failed", 401, "")
    /\ Class(call[b].last) = "garbage" =>
         fnOutcome[b].val = Error("Failed to parse response", 200, call[b].last.body)
    /\ Class(call[b].last) = "other" =>
         fnOutcome[b].val = Error("Request failed", call[b].last.status, call[b].last.body)

\* C6 witness: a call was rejected on a 404 with its whole retry budget left.
C6_Witness ==
  \E b \in Ids :
    /\ Done(b) /\ Rejected(b)
    /\ Class(call[b].last) = "other"
    /\ call[b].retries = Retries
    /\ call[b].attempts = 1

\* C7: a call whose attempts failed with a network error k times (k <= 3)
\* and then got a parseable 200 is fulfilled with that payload after k + 1
\* attempts; it is not rejected before its fourth network error.
C7_NetworkThenSuccess ==
  \A b \in Ids : call[b].seen \in {{"neterr"}, {"neterr", "ok"}, {"ok"}} =>
    /\ call[b].attempts <= Retries + 1
    /\ call[b].retries = Retries - (call[b].attempts - 1)
    /\ Done(b) /\ Class(call[b].last) = "neterr" =>
         call[b].attempts = Retries + 1 /\ Rejected(b)
    /\ "ok" \in call[b].seen =>
         /\ Done(b)
         /\ Fulfilled(b)
         /\ fnOutcome[b].val = JSONparse(call[b].last.body).value

\* C7 witness: two network errors, then a success on the third attempt.
C7_Witness ==
  \E b \in Ids :
    /\ call[b].seen = {"neterr", "ok"}
    /\ call[b].attempts = 3
    /\ Fulfilled(b)
    /\ fnOutcome[b].val = Json(FALSE, TRUE, <<DeviceA, DeviceB>>)

\* the error a non-retryable other status (404) is rejected with
UnexpectedStatus == OnOther(Retries, [type |-> "response", status |-> 404, body |-> "text"]).val

\* C8 (as claimed): a call answered >= 500 on every attempt ends, once the
\* budget is exhausted, with an error of another kind than the one a 404
\* is rejected with.
C8_ServerErrorKind ==
  \A b \in Ids : Only(b, "5xx") /\ Done(b) =>
    fnOutcome[b].val.message # UnexpectedStatus.message

\* C8 (amended): a call answered >= 500 on every attempt makes at most 4
\* attempts, starts each retry at least 1000 ms after the failed attempt,
\* and ends after exactly 4 attempts, rejected with the same "Request failed"
\* error a 404 is rejected with: only the status and body embedded in the
\* message differ.
C8_Always5xx ==
  \A b \in Ids : Only(b, "5xx") =>
    /\ call[b].attempts <= Retries + 1
    /\ call[b].retryGap >= Delay5xx
    /\ ~Fulfilled(b)
    /\ Done(b) =>
         /\ call[b].attempts = Retries + 1
         /\ Rejected(b)
         /\ fnOutcome[b].val =
              [UnexpectedStatus EXCEPT !.status = call[b].last.status,
                                       !.body = call[b].last.body]
         /\ fnOutcome[b].val.status >= 500

\* C8 witness: a call answered 500 four times has been rejected.
C8_Witness ==
  \E b \in Ids :
    /\ Only(b, "5xx") /\ Done(b) /\ Rejected(b)
    /\ call[b].attempts = 4
    /\ call[b].last.status = 500

BatchIds == 1..Len(Batches)
WasStarted(id) == \E k \in 1..Len(started) : started[k] = id
EntriesOf(j) == {k \in 1..Len(errors) : errors[k].batch = j}

\* C9: when the work item of batch j has been rejected and the loop has
\* handled it, errors holds exactly one entry for j, with j's batch number,
\* serial numbers and the error; the next batch has been submitted to the
\* rate limiter; when the run is over every later batch has been started and
\* its request sent; the successes are the fulfilled batches; and the promise
\* of aggregateAllDevices is never rejected with a batch's failure.
C9_FailureDoesNotAbort ==
  /\ \A j \in BatchIds : promise[j].state = "rejected" /\ i >= j =>
       /\ Cardinality(EntriesOf(j)) = 1
       /\ \A k \in EntriesOf(j) :
            errors[k] = [batch |-> j, serialNumbers |-> Batches[j],
                         error |-> promise[j].val]
       /\ j < Len(Batches) => submitted >= j + 1
       /\ runPc = "settled" =>
            \A k \in (j + 1)..Len(Batches) :
              WasStarted(k) /\ call[k].st = "done" /\ Settled(k)
  /\ Len(allResults) = Cardinality({k \in 1..i : promise[k].state = "fulfilled"})
  /\ runPc = "settled" => i = Len(Batches)
  /\ result.state = "rejected" =>
       result.val = Error("Cannot read properties of null", 0, "status")

\* C9 witness: the run has returned after batch 1 was rejected with retries
\* exhausted and batch 2 succeeded: one failure, for batch 1, one success.
C9_Witness ==
  /\ runPc = "settled"
  /\ result.state = "fulfilled"
  /\ promise[1].state = "rejected"
  /\ promise[1].val = Error("Rate limit exceeded after retries", 429, "")
  /\ promise[2].state = "fulfilled"
  /\ Len(errors) = 1
  /\ Len(allResults) = 1

\* C10 (as claimed): when aggregateAllDevices returns, every batch is in
\* exactly one of allResults and errors, so that batchesSuccessful +
\* batchesFailed = batchesProcessed, also when a 200 body is null or has no
\* data array.
C10_ResolvedExactlyOnce ==
  runPc = "settled" /\ result.state = "fulfilled" =>
    /\ result.val.batchesSuccessful + result.val.batchesFailed
         = result.val.batchesProcessed
    /\ \A j \in BatchIds :
         (promise[j].state = "fulfilled") # (EntriesOf(j) # {})

\* the work items whose fn has been called and not yet handled by the gate
InSlot == {id \in Ids : fnState[id] \in {"running", "settled"}}

\* the serial numbers of the k-th batch of the input, in input order
InputBatch(k) ==
  slice(generateSerialNumbers(DeviceCount), (k - 1) * BatchSize, k * BatchSize)

\* C11: a run submits batch j + 1 to the rate limiter only after the promise
\* of batch j has settled and been handled: execute has been called for
\* exactly the batches handled so far plus the awaited one, the limiter's
\* queue never holds more than one item, never one beside a work item in its
\* slot, and the work items started are the batches of the input in input
\* order, none skipped.
C11_NoPipelining ==
  /\ Len(queue) + Cardinality(InSlot) <= 1
  /\ submitted = (IF runPc = "await" THEN i + 1 ELSE i)
  /\ \A j \in 1..(submitted - 1) : Settled(j) /\ fnState[j] = "consumed"
  /\ \A k \in 1..Len(started) : started[k] = k /\ Batches[started[k]] = InputBatch(k)

\* C11 witness: the second batch waits in the limiter's queue for the
\* interval to pass, after the first batch has been rejected and recorded.
C11_Witness ==
  /\ Len(queue) = 1
  /\ queue[1].id = 2
  /\ started = <<1>>
  /\ promise[1].state = "rejected"
  /\ Len(errors) = 1

\* how often work item id has been put in the limiter's queue: the times it
\* was taken out of it (its fn called) plus the times it is waiting in it
Enqueued(id) ==
  Cardinality({k \in 1..Len(started) : started[k] = id})
    + Cardinality({k \in 1..Len(queue) : queue[k].id = id})

\* C12: every batch submitted so far has been put in the limiter's queue
\* exactly once and is taken out of it at most once; while a call is in
\* flight or waiting for its retry timer, retries included, its work item is
\* the one in the slot, the last one started, and nothing has been queued;
\* when the run is over the gate has admitted as many work items as there
\* are batches.
C12_RetriesInsideSlot ==
  /\ \A id \in Ids : Enqueued(id) = (IF id <= submitted THEN 1 ELSE 0)
  /\ \A b \in Ids : call[b].st \in {"inflight", "backoff"} =>
       /\ InSlot = {b}
       /\ started[Len(started)] = b
       /\ queue = <<>>
  /\ runPc = "settled" => Len(started) = Len(Batches)

\* C12 witness: the run is over after both batches used up their retries
\* (three retries each), and the gate has admitted two work items.
C12_Witness ==
  /\ runPc = "settled"
  /\ Len(started) = Len(Batches)
  /\ promise[1].val = Error("Rate limit exceeded after retries", 429, "")
  /\ promise[2].val = Error("ECONNRESET", 0, "")

\* C13 (as claimed): whatever the transport answers, the promise of
\* aggregateAllDevices is never rejected: once the loop is over it is fulfilled
\* with the run's result, every batch having been resolved.
C13_RunReturns ==
  runPc = "settled" =>
    /\ result.state = "fulfilled"
    /\ \A j \in BatchIds : Settled(j)

\* the batches joined end to end
RECURSIVE Concat(_)
Concat(seqs) == IF seqs = <<>> THEN <<>> ELSE Head(seqs) \o Concat(Tail(seqs))

\* C14: for an array of n >= 0 elements and a batch size k >= 1,
\* createBatches returns ceil(n / k) batches, every batch but the last of
\* exactly k elements, the last of 1 to k elements, and the batches joined in
\* order are the array.
C14_Partition ==
  output # NoValue /\ output.tag = "batches" =>
    LET n == Len(input.array)
        k == input.batchSize
        bs == output.batches
    IN /\ Len(bs) = (n + k - 1) \div k
       /\ \A j \in 1..(Len(bs) - 1) : Len(bs[j]) = k
       /\ Len(bs) > 0 => Len(bs[Len(bs)]) \in 1..k
       /\ Concat(bs) = input.array

\* C14 witness: 7 serial numbers in batches of 3 gave 3 batches, the last of
\* one element.
C14_Witness ==
  /\ output # NoValue
  /\ Len(input.array) = 7
  /\ input.batchSize = 3
  /\ Len(output.batches) = 3
  /\ output.batches[3] = <<input.array[7]>>

\* C15 (as claimed): when the payloads given to aggregateResults hold no
\* device record at all, the summary's averagePowerKW and successRate are
\* both zero.
C15_ZeroDevices ==
  runPc = "settled" /\ result.state = "fulfilled"
    /\ result.val.aggregated.summary.totalDevices = 0 =>
      /\ result.val.aggregated.summary.averagePowerKW = Num(0)
      /\ result.val.aggregated.summary.successRate = Num(0)

\* C16 (as claimed): once the cancellation signal has been raised during a
\* run, no further batch is handed to the rate limiter and none is admitted
\* (its fn called).
C16_CancelStopsAdmission ==
  [][cancelled => submitted' = submitted /\ started' = started]_vars

Live(b) == call[b].st \in {"inflight", "backoff", "settled"}
Retryable == {"429", "5xx", "neterr"}

\* C17: every fetchDeviceData call, whatever the batches before it used up,
\* has 3 retries left at its first attempt and one less at every further
\* attempt, whatever the classes of the failures retried; the counter is
\* never below zero and no call makes more than 4 attempts.
C17_RetryBudget ==
  \A b \in Ids : Live(b) =>
    /\ call[b].attempts \in 1..(Retries + 1)
    /\ call[b].retries \in 0..Retries
    /\ call[b].retries = Retries - (call[b].attempts - 1)
    /\ call[b].st = "backoff" => call[b].retries > 0

\* C17 witness: batch 1 used up its three retries; batch 2 then failed with
\* a 429, a server error and a network error and is in its fourth attempt
\* with no retry left.
C17_Witness ==
  /\ promise[1].val = Error("Rate limit exceeded after retries", 429, "")
  /\ call[2].st = "inflight"
  /\ call[2].seen = Retryable
  /\ call[2].attempts = Retries + 1
  /\ call[2].retries = 0

\* C18: the first work item given to a fresh RateLimiter is started within
\* the execute call, and no loop sleeps before a first item was started; a
\* loop starts sleeping only when less than minInterval has passed since the
\* last work item was started, and then for no longer than the rest of
\* minInterval: a work item queued behind one that ran for minInterval or
\* longer is started as soon as that one has been handled.
C18_NoNeedlessWait ==
  /\ [](submitted >= 1 => Len(started) >= 1 /\ started[1] = 1)
  /\ [](\A l \in Ids : loops[l].pc = "sleep" =>
          /\ Len(started) >= 1
          /\ loops[l].timer <= Max(minInterval - sinceAdmit, 0))
  /\ [][\A l \in Ids : loops[l].pc # "sleep" /\ loops'[l].pc = "sleep" =>
          sinceAdmit' < minInterval]_vars

\* C18 witness: work item 2, queued behind work item 1, has just been started
\* by the loop that handled work item 1, more than minInterval after work
\* item 1 was started.
C18_Witness ==
  /\ started = <<1, 2>>
  /\ promise[1].state = "fulfilled"
  /\ loops[1].pc = "await"
  /\ loops[1].cur = 2
  /\ sinceAdmit = 0
  /\ lastGap > minInterval

\* C19: the request of every attempt, first or retry, carries a timestamp
\* read when that attempt was sent (it is as old as the request itself) and a
\* signature computed from the path, the token and that same timestamp; a
\* retry, sent at least 1000 ms after the attempt before it, never carries
\* that attempt's timestamp or signature.
C19_FreshRequest ==
  \A b \in Ids : Live(b) =>
    /\ call[b].request.timestamp = sinceSend
    /\ call[b].request.signature =
         generateSignature(urlPath, API_TOKEN, call[b].request.timestamp)

\* C19 witness: a retry has just been sent, 1500 ms or more after the attempt
\* answered 429, with a timestamp read at this moment.
C19_Witness ==
  \E b \in Ids :
    /\ call[b].st = "inflight"
    /\ call[b].attempts = 2
    /\ call[b].seen = {"429"}
    /\ call[b].request = Headers(0)
    /\ lastSendGap >= Delay429

\* C20: the processing flag is set exactly while a processQueue loop is
\* sleeping or awaiting a work item, so it is set whenever an item is queued
\* and clear once the queue has drained and the last item was handled; no
\* execute promise is settled twice; and every work item given to execute,
\* whenever it is given and whether its fn resolves, rejects or throws, is
\* eventually started and its promise settled: again and again all the work
\* items given so far have been started and settled.
C20_NeverStuck ==
  /\ [](processing = (ActiveLoops # {}))
  /\ [](queue # <<>> => processing)
  /\ [](queue = <<>> /\ InSlot = {} => ~processing)
  /\ [](\A id \in Ids : promise[id].n <= 1)
  /\ []<>(\A id \in 1..submitted : WasStarted(id) /\ Settled(id))

\* C20 witness: work item 2 was given to execute after the gate had gone idle
\* behind work item 1 (each has its own finished loop); its fn threw, its
\* promise is rejected, and the gate is idle again.
C20_Witness ==
  /\ loops[1].pc = "done"
  /\ loops[2].pc = "done"
  /\ promise[1].state = "fulfilled"
  /\ promise[2].val = [tag |-> "thrown", from |-> 2]
  /\ queue = <<>>
  /\ ~processing

====
